---------------------------- MODULE Spec2Model ----------------------------
(***************************************************************************)
(* A model of the universe runtime of necst (src/src/universe.ts, the      *)
(* createUniverse of lines 189-345): the system registry, the update loop  *)
(* with per-system schedules and freeze flags, and the command queue.      *)
(*                                                                         *)
(* update() calls user processors, so it is modelled as a loop: `update`   *)
(* enters it, `updateNext` runs one iteration up to the call of the        *)
(* processor, the processor's calls of its actions object are steps of     *)
(* their own, and `processorReturn` resumes the loop.                      *)
(***************************************************************************)
EXTENDS Integers, Sequences, FiniteSets, TLC

VARIABLES
    systemRegistry,  \* name -> [isFrozen, commandQueue, schedule]
    keyOrder,        \* the property creation order of the systemRegistry object
    pc,              \* "idle" | "loop" (update's for) | "proc" (a processor) | "handler"
    pending,         \* the keys update's for loop has still to visit
    cur,             \* currentSystemName while a processor runs
    handling,        \* the command whose handler runs, inside handleCommand
    delta,           \* the delta of the running (or last) update
    time,            \* the time of the running (or last) update
    now,             \* the last reading of performance.now()
    createdAt,       \* line 196
    lastUpdateAt,    \* line 197
    lastOp,          \* history: the last call made and its outcome
    visited,         \* history: what the loop did with each key of this pass
    hist,            \* history, per registered system
    sent,            \* history, per pending command
    removed,         \* history: the system last unregistered and what it held
    entityRegistry,  \* uuid -> (component name -> payload)
    entityOrder,     \* the property creation order of the entityRegistry object
    created,         \* how many uuids crypto.randomUUID() has handed out
    heap,            \* the field of each payload object
    gen,             \* the generator object of the last view / createView call
    lastWrite,       \* history: the last field write made through a view record
    latest,          \* history, per entity: the last payload attached under each name
    snapshot         \* the object the last cloneEntity call returned

timeVars  == <<delta, time, now, createdAt, lastUpdateAt>>
passVars  == <<pc, pending, cur, handling, timeVars>>
sysVars   == <<systemRegistry, keyOrder, pc, pending, cur, handling, timeVars,
               visited, hist, sent, removed>>
entVars   == <<entityRegistry, entityOrder, created, heap, gen, lastWrite, latest,
               snapshot>>
vars      == <<systemRegistry, keyOrder, pc, pending, cur, handling,
               delta, time, now, createdAt, lastUpdateAt, lastOp, visited, hist, sent, removed,
               entityRegistry, entityOrder, created, heap, gen, lastWrite, latest,
               snapshot>>

----------------------------------------------------------------------------
(* Bounds and input domains *)

MaxInterval == 3
MaxUpdates  == 7
MaxEntities == 2
MaxSeconds  == 6

\* System names. "1" and "2" are canonical array indices for a JavaScript object.
StringNames == {"a", "b"}
IndexNames  == {"1"}
SysNames    == StringNames \cup IndexNames
NoName      == "-"

\* Payload values, written as JavaScript literals; "undefined" is the omitted payload.
Payloads    == {"undefined", "0", "1", "2"}
NoData      == "-"

\* The k-th value of crypto.randomUUID().  A UUID is never an array index.
Uuid(k)     == CASE k = 1 -> "u1" [] k = 2 -> "u2" [] k = 3 -> "u3" [] OTHER -> "u4"
Uuids       == {Uuid(k) : k \in 1..MaxEntities}

\* Component names and the payloads of each (the CompMap of the caller): "p" is an
\* object, which has one field and is held by reference, or the number 0; "q" is
\* the number 1.
Components  == {"p", "q"}
Objects     == {"o1"}
FieldValues == {0, 1}
PayloadsOf(name) == IF name = "p" THEN {"0"} \cup Objects ELSE {"1"}

\* The processors handed to registerSystem.
Processors  == {"p1", "p2"}

Units       == {"updates", "seconds"}
Deltas      == {500, 1000}

\* Number.MAX_SAFE_INTEGER is 2^53 - 1.  The model's integers are 32 bits wide, so
\* it is written as the largest of them; like 2^53 - 1 it is above every
\* threshold the intervals of the model give (at most (MaxInterval + 1) * 1000),
\* and nothing is ever added to it.
MAX_SAFE_INTEGER == 2147483647

----------------------------------------------------------------------------
(* JavaScript helpers *)

\* ToBoolean of a payload literal: what `!value` tests.
ToBoolean(v) == v \notin {"undefined", "null", "false", "0", "''"}

Put(f, k, v) == [x \in DOMAIN f \cup {k} |-> IF x = k THEN v ELSE f[x]]
Delete(f, k) == [x \in DOMAIN f \ {k} |-> f[x]]

Range(s) == {s[i] : i \in 1..Len(s)}
Remove(s, k) == SelectSeq(s, LAMBDA x: x # k)
IndexOf(s, k) == CHOOSE i \in 1..Len(s) : s[i] = k

IsArrayIndex(k) == k \in {"0", "1", "2", "3"}
IndexValue(k) == CASE k = "0" -> 0 [] k = "1" -> 1 [] k = "2" -> 2 [] k = "3" -> 3

RECURSIVE SortedIndices(_)
SortedIndices(S) ==
    IF S = {} THEN <<>>
    ELSE LET m == CHOOSE k \in S : \A j \in S : IndexValue(k) <= IndexValue(j)
         IN  <<m>> \o SortedIndices(S \ {m})

\* Object.keys: the array-index keys in ascending numeric order, then the other
\* string keys in the order of their creation.
typedKeys(order) ==
    SortedIndices({k \in Range(order) : IsArrayIndex(k)})
        \o SelectSeq(order, LAMBDA k: ~IsArrayIndex(k))

----------------------------------------------------------------------------
(* The values the code builds *)

EmptyObject == [k \in {} |-> NoData]
NoSchedule  == <<>>

newSystem(processor) ==
    [isFrozen |-> FALSE, commandQueue |-> EmptyObject, schedule |-> NoSchedule,
     systemProcessor |-> processor]

newSchedule_Zero(x, unit) ==
    <<[x |-> x, seconds |-> (unit = "seconds"), timeSinceLastUpdate |-> 0]>>
newSchedule(x, unit) ==
    <<[x |-> x, seconds |-> (unit = "seconds"), timeSinceLastUpdate |-> MAX_SAFE_INTEGER]>>

threshold_NoMinusOne(schedule) ==
    IF schedule.seconds THEN schedule.x * 1000 ELSE schedule.x
threshold_Millis(schedule) ==
    IF schedule.seconds THEN schedule.x ELSE schedule.x - 1
threshold(schedule) ==
    IF schedule.seconds THEN schedule.x * 1000 ELSE schedule.x - 1

isSystemRegistered(name) == name \in DOMAIN systemRegistry

\* The schedule check of lines 281-293: TRUE when the system is to be skipped.
notDue(schedule) == schedule.timeSinceLastUpdate < threshold(schedule)

accumulate(schedule, d) ==
    [schedule EXCEPT !.timeSinceLastUpdate = @ + (IF schedule.seconds THEN d ELSE 1)]

\* A system that has a schedule and is in the middle of its interval.
Waiting(system) == system.schedule # NoSchedule /\ notDue(system.schedule[1])


----------------------------------------------------------------------------
(* History records *)

NoSent  == [count |-> 0, data |-> NoData, thisPass |-> FALSE, by |-> NoName]
newHist == [mustWait |-> FALSE, justScheduled |-> "no", everFrozen |-> FALSE,
            updatesSince |-> 0, elapsed |-> -1, steady |-> TRUE, owed |-> 0,
            atStart |-> FALSE]

\* A system is steady until it is frozen or scheduled or a pass is aborted; for a
\* steady system `owed` is the number of update calls since its registration
\* less the number of its invocations. While a pass has yet to reach a system,
\* `atStart` is the frozen flag the system had when the pass began.
Unsteady(h) == [h EXCEPT !.steady = FALSE, !.owed = 0]
Reached(h) == [h EXCEPT !.atStart = FALSE]
Aborted == [n \in DOMAIN hist |-> Reached(Unsteady(hist[n]))]

ElapsedCap == (MaxInterval + 1) * 1000
Min(a, b) == IF a < b THEN a ELSE b

Op(op, sys, cmd, data, err) ==
    [op |-> op, sys |-> sys, cmd |-> cmd, data |-> data, err |-> err,
     called |-> FALSE, had |-> FALSE, stored |-> NoData, prior |-> NoSent]

\* What a system holds beyond its defaults, noted when it is unregistered.
NoRemoved == [name |-> NoName, frozen |-> FALSE, queued |-> FALSE, scheduled |-> FALSE]
Held(name, system) ==
    [name |-> name, frozen |-> system.isFrozen,
     queued |-> system.commandQueue # EmptyObject,
     scheduled |-> system.schedule # NoSchedule]

SentOf(sys, cmd) ==
    IF sys \in DOMAIN sent /\ cmd \in DOMAIN sent[sys] THEN sent[sys][cmd] ELSE NoSent

----------------------------------------------------------------------------
(* Errors.  registryError throws; nothing in universe.ts catches, so a throw  *)
(* inside a processor leaves update() as well.                                *)

registryError(op) ==
    /\ lastOp' = op
    /\ IF pc \in {"proc", "handler"}
       THEN /\ pc' = "idle"
            /\ pending' = <<>>
            /\ cur' = NoName
            /\ handling' = NoName
            /\ visited' = <<>>
            /\ hist' = Aborted
       ELSE UNCHANGED <<pc, pending, cur, handling, visited, hist>>
    /\ UNCHANGED <<systemRegistry, keyOrder, timeVars, sent, removed, entVars>>

----------------------------------------------------------------------------
(* The universe's methods *)

registerSystem_Replace(name, processor) ==
    /\ systemRegistry' = Put(systemRegistry, name, newSystem(processor))
    /\ keyOrder' = IF name \in DOMAIN systemRegistry THEN keyOrder ELSE Append(keyOrder, name)
    /\ hist' = Put(hist, name, newHist)
    /\ sent' = Put(sent, name, EmptyObject)
    /\ lastOp' = Op("registerSystem", name, NoName, NoData, FALSE)
    /\ UNCHANGED <<passVars, visited, removed, entVars>>

registerSystem(name, processor) ==
    IF name \in DOMAIN systemRegistry
    THEN registryError(Op("registerSystem", name, NoName, NoData, TRUE))
    ELSE /\ systemRegistry' = Put(systemRegistry, name, newSystem(processor))
         /\ keyOrder' = Append(keyOrder, name)
         /\ hist' = Put(hist, name, newHist)
         /\ sent' = Put(sent, name, EmptyObject)
         /\ lastOp' = Op("registerSystem", name, NoName, NoData, FALSE)
         /\ UNCHANGED <<passVars, visited, removed, entVars>>

unregisterSystem_Reset(name) ==
    IF name \notin DOMAIN systemRegistry
    THEN registryError(Op("unregisterSystem", name, NoName, NoData, TRUE))
    ELSE /\ systemRegistry' = [systemRegistry EXCEPT
                ![name] = newSystem(systemRegistry[name].systemProcessor)]
         /\ removed' = Held(name, systemRegistry[name])
         /\ lastOp' = Op("unregisterSystem", name, NoName, NoData, FALSE)
         /\ UNCHANGED <<keyOrder, passVars, visited, hist, sent, entVars>>

unregisterSystem(name) ==
    IF name \notin DOMAIN systemRegistry
    THEN registryError(Op("unregisterSystem", name, NoName, NoData, TRUE))
    ELSE /\ systemRegistry' = Delete(systemRegistry, name)
         /\ keyOrder' = Remove(keyOrder, name)
         /\ hist' = Delete(hist, name)
         /\ sent' = Delete(sent, name)
         /\ removed' = Held(name, systemRegistry[name])
         /\ lastOp' = Op("unregisterSystem", name, NoName, NoData, FALSE)
         /\ UNCHANGED <<passVars, visited, entVars>>

scheduleSystem(name, x, unit) ==
    IF name \notin DOMAIN systemRegistry
    THEN registryError(Op("scheduleSystem", name, NoName, NoData, TRUE))
    ELSE /\ systemRegistry' =
                [systemRegistry EXCEPT ![name].schedule = newSchedule(x, unit)]
         /\ hist' = [hist EXCEPT ![name] = Unsteady(@),
                                 ![name].justScheduled =
                                     IF Waiting(systemRegistry[name]) THEN "again" ELSE "new",
                                 ![name].everFrozen = systemRegistry[name].isFrozen,
                                 ![name].updatesSince = 0,
                                 ![name].elapsed = -1]
         /\ lastOp' = Op("scheduleSystem", name, NoName, NoData, FALSE)
         /\ UNCHANGED <<keyOrder, passVars, visited, sent, removed, entVars>>

unscheduleSystem(name) ==
    IF name \notin DOMAIN systemRegistry
    THEN registryError(Op("unscheduleSystem", name, NoName, NoData, TRUE))
    ELSE /\ systemRegistry' = [systemRegistry EXCEPT ![name].schedule = NoSchedule]
         /\ hist' = [hist EXCEPT ![name].justScheduled = "no",
                                 ![name].everFrozen = FALSE,
                                 ![name].updatesSince = 0,
                                 ![name].elapsed = -1]
         /\ lastOp' = Op("unscheduleSystem", name, NoName, NoData, FALSE)
         /\ UNCHANGED <<keyOrder, passVars, visited, sent, removed, entVars>>


----------------------------------------------------------------------------
(* update: lines 268-276, up to the evaluation of typedKeys(systemRegistry) *)

Scheduled(name) == systemRegistry[name].schedule # NoSchedule

\* A schedule in updates: the one the history counts update calls for.
Counted(name) == Scheduled(name) /\ ~systemRegistry[name].schedule[1].seconds

\* const now = performance.now(), line 269: the clock is d past its last reading.
performanceNow(d) == now + d

\* if (resetTime) createdAt = now, line 270.
baseline(resetTime, t) == IF resetTime THEN t ELSE createdAt

\* lastUpdateAt = now, line 273.
stamp_Keep(t) == lastUpdateAt
stamp(t) == t

update(resetTime, d) ==
    /\ pc = "idle"
    /\ \A n \in DOMAIN systemRegistry : Counted(n) => hist[n].updatesSince < MaxUpdates
    /\ performanceNow(d) <= MaxSeconds * 1000
    /\ LET t == performanceNow(d) IN
       /\ now' = t
       /\ createdAt' = baseline(resetTime, t)
       /\ time' = t - createdAt'
       /\ delta' = t - lastUpdateAt
       /\ lastUpdateAt' = stamp(t)
    /\ pending' = typedKeys(keyOrder)
    /\ pc' = "loop"
    /\ visited' = <<>>
    /\ hist' = [n \in DOMAIN hist |->
                  [hist[n] EXCEPT
                     !.updatesSince = IF Counted(n) THEN @ + 1 ELSE @,
                     !.owed = IF hist[n].steady THEN @ + 1 ELSE @,
                     !.elapsed = IF @ >= 0 THEN Min(@ + d, ElapsedCap) ELSE @,
                     !.atStart = n \in DOMAIN systemRegistry /\ systemRegistry[n].isFrozen]]
    /\ sent' = [n \in DOMAIN sent |->
                  [c \in DOMAIN sent[n] |-> [sent[n][c] EXCEPT !.thisPass = FALSE]]]
    /\ lastOp' = Op("update", NoName, NoName, IF resetTime THEN "true" ELSE NoData, FALSE)
    /\ UNCHANGED <<systemRegistry, keyOrder, cur, handling, removed, entVars>>

\* What the loop notes of the system it has reached, before acting on it.
Entry(name, outcome) ==
    LET sys == systemRegistry[name]
        has == sys.schedule # NoSchedule
        sch == sys.schedule[1]
    IN  [name |-> name, outcome |-> outcome,
         waiting |-> hist[name].mustWait,
         fresh |-> hist[name].justScheduled,
         never |-> ~hist[name].everFrozen,
         frozen |-> sys.isFrozen,
         atStart |-> hist[name].atStart,
         args |-> <<time, delta>>,
         due |-> ~Waiting(sys),
         k |-> hist[name].updatesSince,
         n |-> IF has /\ ~sch.seconds THEN sch.x ELSE 0,
         need |-> IF has /\ sch.seconds THEN sch.x * 1000 ELSE -1,
         gap |-> hist[name].elapsed]

\* `const system = systemRegistry[currentSystemName]!`, line 278: the entry as
\* it is when the loop reaches the key.
currentSystem_AtStart(name) ==
    [systemRegistry[name] EXCEPT !.isFrozen = hist[name].atStart]
currentSystem(name) == systemRegistry[name]

\* `continue`, lines 279 and 285: the loop goes on with the next key.
continue_Break(keys) == <<>>
continue(keys) == Tail(keys)

skipFrozen_Woken(system) == system.isFrozen /\ system.commandQueue = EmptyObject
skipFrozen_Never(system) == FALSE
skipFrozen(system) == system.isFrozen

\* One iteration of the for loop, lines 276-338, up to the processor's call.
updateNext ==
    /\ pc = "loop"
    /\ pending # <<>>
    /\ LET name == Head(pending) IN
       IF name \notin DOMAIN systemRegistry
       THEN \* `system` is undefined: reading system.isFrozen throws a TypeError
            /\ pc' = "idle"
            /\ pending' = <<>>
            /\ visited' = <<>>
            /\ hist' = Aborted
            /\ lastOp' = Op("update", name, NoName, NoData, TRUE)
            /\ UNCHANGED <<systemRegistry, keyOrder, cur, handling, timeVars, sent, removed, entVars>>
       ELSE LET system == currentSystem(name) IN
            IF skipFrozen(system)
            THEN /\ pending' = continue(pending)
                 /\ visited' = Append(visited, Entry(name, "frozen"))
                 /\ hist' = [hist EXCEPT ![name] = Reached(@)]
                 /\ lastOp' = Op("skip", NoName, NoName, NoData, FALSE)
                 /\ UNCHANGED <<systemRegistry, keyOrder, pc, cur, handling, timeVars,
                                sent, removed, entVars>>
            ELSE IF system.schedule # NoSchedule /\ notDue(system.schedule[1])
            THEN /\ systemRegistry' = [systemRegistry EXCEPT
                        ![name].schedule = <<accumulate(system.schedule[1], delta)>>]
                 /\ pending' = continue(pending)
                 /\ visited' = Append(visited, Entry(name, "notDue"))
                 /\ hist' = [hist EXCEPT ![name] = Reached(@)]
                 /\ lastOp' = Op("skip", NoName, NoName, NoData, FALSE)
                 /\ UNCHANGED <<keyOrder, pc, cur, handling, timeVars, sent, removed, entVars>>
            ELSE /\ systemRegistry' =
                        IF system.schedule # NoSchedule
                        THEN [systemRegistry EXCEPT
                                ![name].schedule[1].timeSinceLastUpdate = 0]
                        ELSE systemRegistry
                 /\ pending' = Tail(pending)
                 /\ visited' = Append(visited, Entry(name, "invoked"))
                 /\ hist' = [hist EXCEPT
                        ![name].atStart = FALSE,
                        ![name].owed = IF hist[name].steady THEN @ - 1 ELSE @,
                        ![name].justScheduled = "no",
                        ![name].elapsed =
                            IF system.schedule # NoSchedule /\ system.schedule[1].seconds
                            THEN 0 ELSE -1]
                 /\ pc' = "proc"
                 /\ cur' = name
                 /\ lastOp' = Op("invoke", NoName, NoName, NoData, FALSE)
                 /\ UNCHANGED <<keyOrder, handling, timeVars, sent, removed, entVars>>

\* The processor returns: the loop goes on (line 339).
processorReturn ==
    /\ pc = "proc"
    /\ pc' = "loop"
    /\ cur' = NoName
    /\ lastOp' = Op("return", NoName, NoName, NoData, FALSE)
    /\ UNCHANGED <<systemRegistry, keyOrder, pending, handling, timeVars, visited, hist, sent, removed, entVars>>

\* The processor throws: update does not catch (line 338).
processorThrow_Caught ==
    /\ pc = "proc"
    /\ pc' = "loop"
    /\ cur' = NoName
    /\ lastOp' = Op("throw", cur, NoName, NoData, TRUE)
    /\ UNCHANGED <<systemRegistry, keyOrder, pending, handling, timeVars, visited, hist, sent, removed, entVars>>

processorThrow ==
    /\ pc = "proc"
    /\ pc' = "idle"
    /\ pending' = <<>>
    /\ cur' = NoName
    /\ visited' = <<>>
    /\ hist' = Aborted
    /\ lastOp' = Op("throw", cur, NoName, NoData, TRUE)
    /\ UNCHANGED <<systemRegistry, keyOrder, handling, timeVars, sent, removed, entVars>>

\* The for loop is exhausted: update returns (line 340).
updateDone ==
    /\ pc = "loop"
    /\ pending = <<>>
    /\ pc' = "idle"
    /\ visited' = <<>>
    /\ lastOp' = Op("updated", NoName, NoName, NoData, FALSE)
    /\ UNCHANGED <<systemRegistry, keyOrder, pending, cur, handling, timeVars, hist, sent, removed, entVars>>


----------------------------------------------------------------------------
(* The actions object handed to the running processor, lines 295-336 *)

InProcessor == pc \in {"proc", "handler"}

sendCommand_Create(systemName, command, data) ==
    /\ InProcessor
    /\ systemRegistry' =
          Put(systemRegistry, systemName,
              [(IF systemName \in DOMAIN systemRegistry
                THEN systemRegistry[systemName] ELSE newSystem(NoName))
               EXCEPT !.commandQueue = Put(@, command, data)])
    /\ keyOrder' = IF systemName \in DOMAIN systemRegistry
                   THEN keyOrder ELSE Append(keyOrder, systemName)
    /\ hist' = IF systemName \in DOMAIN hist THEN hist ELSE Put(hist, systemName, newHist)
    /\ sent' = Put(sent, systemName,
                   Put(IF systemName \in DOMAIN sent THEN sent[systemName] ELSE EmptyObject,
                       command,
                       [count |-> Min(SentOf(systemName, command).count + 1, 2),
                        data |-> data, thisPass |-> TRUE, by |-> cur]))
    /\ lastOp' = Op("sendCommand", systemName, command, data, FALSE)
    /\ UNCHANGED <<passVars, visited, removed, entVars>>

sendCommand(systemName, command, data) ==
    /\ InProcessor
    /\ IF systemName \notin DOMAIN systemRegistry
       THEN registryError(Op("sendCommand", systemName, command, data, TRUE))
       ELSE /\ systemRegistry' = [systemRegistry EXCEPT
                   ![systemName].commandQueue = Put(@, command, data)]
            /\ sent' = [sent EXCEPT ![systemName] =
                   Put(@, command,
                       [count |-> Min(SentOf(systemName, command).count + 1, 2),
                        data |-> data, thisPass |-> TRUE, by |-> cur])]
            /\ lastOp' = Op("sendCommand", systemName, command, data, FALSE)
            /\ UNCHANGED <<keyOrder, passVars, visited, hist, removed, entVars>>

\* handleCommand up to the call of the handler, lines 308-311.
handleCommand(command) ==
    /\ pc = "proc"
    /\ LET queue == systemRegistry[cur].commandQueue
           had   == command \in DOMAIN queue
           note  == [Op("handleCommand", cur, command, NoData, FALSE) EXCEPT
                        !.had = had,
                        !.stored = IF had THEN queue[command] ELSE NoData,
                        !.prior = SentOf(cur, command)]
       IN  IF ~(had /\ ToBoolean(queue[command]))
           THEN /\ lastOp' = note
                /\ UNCHANGED <<systemRegistry, keyOrder, passVars, visited, hist, sent, removed, entVars>>
           ELSE /\ pc' = "handler"
                /\ handling' = command
                /\ sent' = [sent EXCEPT ![cur] = Delete(@, command)]
                /\ lastOp' = [note EXCEPT !.called = TRUE, !.data = queue[command]]
                /\ UNCHANGED <<systemRegistry, keyOrder, pending, cur, timeVars, visited, hist, removed, entVars>>

removeCommand(queue, command) == Delete(queue, command)

\* The handler returns and handleCommand deletes the entry, line 312.
handlerReturn ==
    /\ pc = "handler"
    /\ systemRegistry' = [systemRegistry EXCEPT
          ![cur].commandQueue = removeCommand(@, handling)]
    /\ pc' = "proc"
    /\ handling' = NoName
    /\ lastOp' = Op("handled", NoName, NoName, NoData, FALSE)
    /\ UNCHANGED <<keyOrder, pending, cur, timeVars, visited, hist, sent, removed, entVars>>

\* The handler throws: line 312 is not reached, and update does not catch.
handlerThrow ==
    /\ pc = "handler"
    /\ pc' = "idle"
    /\ pending' = <<>>
    /\ cur' = NoName
    /\ handling' = NoName
    /\ visited' = <<>>
    /\ hist' = Aborted
    /\ lastOp' = Op("throw", cur, handling, NoData, TRUE)
    /\ UNCHANGED <<systemRegistry, keyOrder, timeVars, sent, removed, entVars>>

\* `if (name)`: the omitted argument (NoName) and the empty string are falsy.
NameGiven(name) == name \notin {NoName, ""}

\* freezeSystem(name?), lines 314-324; NoName is the omitted argument.
freezeSystem(name) ==
    /\ InProcessor
    /\ IF NameGiven(name) /\ name \notin DOMAIN systemRegistry
       THEN registryError(Op("freezeSystem", name, NoName, NoData, TRUE))
       ELSE LET target == IF NameGiven(name) THEN name ELSE cur IN
            /\ systemRegistry' = [systemRegistry EXCEPT ![target].isFrozen = TRUE]
            /\ hist' = [hist EXCEPT
                   ![target] = Unsteady(@),
                   ![target].everFrozen = (@ \/ Scheduled(target)),
                   ![target].mustWait = (@ \/ name = NoName)]
            /\ lastOp' = Op("freezeSystem", name, NoName, NoData, FALSE)
            /\ UNCHANGED <<keyOrder, passVars, visited, sent, removed, entVars>>

\* unfreezeSystem(name?), lines 325-335.
unfreezeSystem(name) ==
    /\ InProcessor
    /\ IF NameGiven(name) /\ name \notin DOMAIN systemRegistry
       THEN registryError(Op("unfreezeSystem", name, NoName, NoData, TRUE))
       ELSE LET target == IF NameGiven(name) THEN name ELSE cur IN
            /\ systemRegistry' = [systemRegistry EXCEPT ![target].isFrozen = FALSE]
            /\ hist' = [hist EXCEPT ![target].mustWait = FALSE]
            /\ lastOp' = Op("unfreezeSystem", name, NoName, NoData, FALSE)
            /\ UNCHANGED <<keyOrder, passVars, visited, sent, removed, entVars>>

----------------------------------------------------------------------------
(* The entity registry, lines 200-228 *)

EntOp(op, uuid, name, data, err, result) ==
    [op |-> op, uuid |-> uuid, name |-> name, data |-> data, err |-> err,
     result |-> result]

NoRecord    == [uuid |-> NoName, comps |-> EmptyObject]
NoGenerator == [state |-> "none", query |-> {}, keys |-> <<>>, out |-> <<>>,
                dirty |-> FALSE, rec |-> NoRecord, stale |-> {}, room |-> 0]
NoSnapshot  == [of |-> NoName, shared |-> FALSE, comps |-> EmptyObject]
NoWrite     == [valid |-> FALSE, uuid |-> NoName, name |-> NoName, value |-> 0]

\* History: the payload an entity holds under a name before a call, if any.
Prior(uuid, name) ==
    IF uuid \in DOMAIN entityRegistry /\ name \in DOMAIN entityRegistry[uuid]
    THEN entityRegistry[uuid][name] ELSE NoData

\* A payload object copied when its field was 0, or 1.
IsCopy(e) == e \in {"copy0", "copy1"}

\* The names under which a record holds an object.
Writable(rec) == {n \in DOMAIN rec.comps : rec.comps[n] \in Objects \/ IsCopy(rec.comps[n])}

\* History: the registry changed under the generator (what the generator had
\* yielded is then no longer followed, and dropped); the objects of its last record
\* that were overwritten, detached or destroyed since the record was yielded.
Touch(g, uuid, names) ==
    [g EXCEPT !.dirty = (@ \/ g.state # "none"),
              !.query = IF g.state = "completed" THEN {} ELSE @,
              !.out = <<>>,
              !.stale = IF g.rec.uuid = uuid
                        THEN @ \cup (names \cap Writable(g.rec)) ELSE @]

Forget(w, uuid, names) ==
    IF w.valid /\ w.uuid = uuid /\ w.name \in names THEN NoWrite ELSE w

\* crypto.randomUUID(): a version-4 UUID, taken as one no earlier call returned.
\* An object that a registry entry and a caller both hold stays with the caller
\* when the entry is deleted.
Outlive(s, uuid) ==
    IF s.shared /\ s.of = uuid
    THEN [s EXCEPT !.shared = FALSE, !.comps = entityRegistry[uuid]] ELSE s

\* The property names of the object the caller holds.
namesOf(s) == IF s.shared THEN DOMAIN entityRegistry[s.of] ELSE DOMAIN s.comps

randomUUID_Fixed == Uuid(1)
randomUUID == Uuid(created + 1)

createEntity ==
    /\ created < MaxEntities
    /\ LET uuid == randomUUID IN
       /\ entityRegistry' = Put(entityRegistry, uuid, EmptyObject)
       /\ entityOrder' = IF uuid \in Range(entityOrder) THEN entityOrder
                         ELSE Append(entityOrder, uuid)
       /\ created' = created + 1
       /\ latest' = Put(latest, uuid, EmptyObject)
       /\ gen' = Touch(gen, uuid, {})
       /\ lastOp' = EntOp("createEntity", uuid, NoName, NoData, FALSE, NoData)
       /\ UNCHANGED <<sysVars, heap, lastWrite, snapshot>>

attachComponent_Create(uuid, name, data) ==
    /\ entityRegistry' = Put(entityRegistry, uuid,
            Put(IF uuid \in DOMAIN entityRegistry THEN entityRegistry[uuid] ELSE EmptyObject,
                name, data))
    /\ entityOrder' = IF uuid \in Range(entityOrder) THEN entityOrder
                      ELSE Append(entityOrder, uuid)
    /\ latest' = Put(latest, uuid,
            Put(IF uuid \in DOMAIN latest THEN latest[uuid] ELSE EmptyObject, name, data))
    /\ gen' = Touch(gen, uuid, {name})
    /\ lastWrite' = Forget(lastWrite, uuid, {name})
    /\ lastOp' = EntOp("attachComponent", uuid, name, data, FALSE, Prior(uuid, name))
    /\ UNCHANGED <<sysVars, created, heap, snapshot>>

attachComponent_KeepFirst(uuid, name, data) ==
    IF uuid \notin DOMAIN entityRegistry
    THEN registryError(EntOp("attachComponent", uuid, NoName, NoData, TRUE, NoData))
    ELSE /\ entityRegistry' = [entityRegistry EXCEPT ![uuid] =
                IF name \in DOMAIN @ THEN @ ELSE Put(@, name, data)]
         /\ latest' = [latest EXCEPT ![uuid] = Put(@, name, data)]
         /\ gen' = Touch(gen, uuid, {name})
         /\ lastWrite' = Forget(lastWrite, uuid, {name})
         /\ lastOp' = EntOp("attachComponent", uuid, name, data, FALSE, Prior(uuid, name))
         /\ UNCHANGED <<sysVars, entityOrder, created, heap, snapshot>>

attachComponent(uuid, name, data) ==
    IF uuid \notin DOMAIN entityRegistry
    THEN registryError(EntOp("attachComponent", uuid, NoName, NoData, TRUE, NoData))
    ELSE /\ entityRegistry' = [entityRegistry EXCEPT ![uuid] = Put(@, name, data)]
         /\ latest' = [latest EXCEPT ![uuid] = Put(@, name, data)]
         /\ gen' = Touch(gen, uuid, {name})
         /\ lastWrite' = Forget(lastWrite, uuid, {name})
         /\ lastOp' = EntOp("attachComponent", uuid, name, data, FALSE, Prior(uuid, name))
         /\ UNCHANGED <<sysVars, entityOrder, created, heap, snapshot>>

detachComponent_Clear(uuid, componentName) ==
    IF uuid \notin DOMAIN entityRegistry
    THEN registryError(EntOp("detachComponent", uuid, NoName, NoData, TRUE, NoData))
    ELSE /\ entityRegistry' = [entityRegistry EXCEPT ![uuid] = EmptyObject]
         /\ latest' = [latest EXCEPT ![uuid] = EmptyObject]
         /\ gen' = Touch(gen, uuid, Components)
         /\ lastWrite' = Forget(lastWrite, uuid, Components)
         /\ lastOp' = EntOp("detachComponent", uuid, componentName, NoData, FALSE,
                            Prior(uuid, componentName))
         /\ UNCHANGED <<sysVars, entityOrder, created, heap, snapshot>>

detachComponent(uuid, componentName) ==
    IF uuid \notin DOMAIN entityRegistry
    THEN registryError(EntOp("detachComponent", uuid, NoName, NoData, TRUE, NoData))
    ELSE /\ entityRegistry' = [entityRegistry EXCEPT ![uuid] = Delete(@, componentName)]
         /\ latest' = [latest EXCEPT ![uuid] = Delete(@, componentName)]
         /\ gen' = Touch(gen, uuid, {componentName})
         /\ lastWrite' = Forget(lastWrite, uuid, {componentName})
         /\ lastOp' = EntOp("detachComponent", uuid, componentName, NoData, FALSE,
                            Prior(uuid, componentName))
         /\ UNCHANGED <<sysVars, entityOrder, created, heap, snapshot>>

\* entityRegistry[uuid] = {} in place of the delete: the key stays.
destroyEntity_Clear(uuid) ==
    IF uuid \notin DOMAIN entityRegistry
    THEN registryError(EntOp("destroyEntity", uuid, NoName, NoData, TRUE, NoData))
    ELSE /\ entityRegistry' = [entityRegistry EXCEPT ![uuid] = EmptyObject]
         /\ latest' = [latest EXCEPT ![uuid] = EmptyObject]
         /\ gen' = Touch(gen, uuid, Components)
         /\ lastWrite' = Forget(lastWrite, uuid, Components)
         /\ lastOp' = EntOp("destroyEntity", uuid, NoName, NoData, FALSE, NoData)
         /\ UNCHANGED <<sysVars, entityOrder, created, heap, snapshot>>

destroyEntity(uuid) ==
    IF uuid \notin DOMAIN entityRegistry
    THEN registryError(EntOp("destroyEntity", uuid, NoName, NoData, TRUE, NoData))
    ELSE /\ entityRegistry' = Delete(entityRegistry, uuid)
         /\ entityOrder' = Remove(entityOrder, uuid)
         /\ latest' = Delete(latest, uuid)
         /\ gen' = Touch(gen, uuid, Components)
         /\ lastWrite' = Forget(lastWrite, uuid, Components)
         /\ snapshot' = Outlive(snapshot, uuid)
         /\ lastOp' = EntOp("destroyEntity", uuid, NoName, NoData, FALSE, NoData)
         /\ UNCHANGED <<sysVars, created, heap>>

\* {...object}: a new object with the own properties of `object`, the payloads
\* shared; the spread of undefined is the empty object.
spread(registry, uuid) ==
    IF uuid \in DOMAIN registry THEN registry[uuid] ELSE EmptyObject

\* return entityRegistry[uuid]: the entity's own object (and undefined for an
\* unknown uuid, which has no properties to set).
cloneEntity_Alias(uuid, keep) ==
    /\ snapshot' = IF ~keep THEN snapshot
                   ELSE IF uuid \in DOMAIN entityRegistry
                   THEN [of |-> uuid, shared |-> TRUE, comps |-> EmptyObject]
                   ELSE NoSnapshot
    /\ lastOp' = EntOp("cloneEntity", uuid, NoName, NoData, FALSE,
                       spread(entityRegistry, uuid))
    /\ UNCHANGED <<sysVars, entityRegistry, entityOrder, created, heap, gen, lastWrite,
                   latest>>

\* `keep`: the caller holds on to the object it is returned, to use it later.
cloneEntity(uuid, keep) ==
    /\ snapshot' = IF ~keep THEN snapshot
                   ELSE [of |-> uuid, shared |-> FALSE, comps |-> spread(entityRegistry, uuid)]
    /\ lastOp' = EntOp("cloneEntity", uuid, NoName, NoData, FALSE,
                       spread(entityRegistry, uuid))
    /\ UNCHANGED <<sysVars, entityRegistry, entityOrder, created, heap, gen, lastWrite,
                   latest>>

\* The caller sets a property of the object cloneEntity returned.
snapshotPut(name, data) ==
    /\ snapshot # NoSnapshot
    /\ IF snapshot.shared
       THEN /\ entityRegistry' = [entityRegistry EXCEPT ![snapshot.of] = Put(@, name, data)]
            /\ UNCHANGED snapshot
       ELSE /\ snapshot' = [snapshot EXCEPT !.comps = Put(@, name, data)]
            /\ UNCHANGED entityRegistry
    /\ lastOp' = EntOp("snapshotPut", snapshot.of, name, data, FALSE, NoData)
    /\ UNCHANGED <<sysVars, entityOrder, created, heap, gen, lastWrite, latest>>

\* The caller deletes a property of the object cloneEntity returned.
snapshotDelete(name) ==
    /\ snapshot # NoSnapshot
    /\ IF snapshot.shared
       THEN /\ entityRegistry' = [entityRegistry EXCEPT ![snapshot.of] = Delete(@, name)]
            /\ UNCHANGED snapshot
       ELSE /\ snapshot' = [snapshot EXCEPT !.comps = Delete(@, name)]
            /\ UNCHANGED entityRegistry
    /\ lastOp' = EntOp("snapshotDelete", snapshot.of, name, NoData, FALSE, NoData)
    /\ UNCHANGED <<sysVars, entityOrder, created, heap, gen, lastWrite, latest>>

----------------------------------------------------------------------------
(* createRegistryView, lines 347-370: a generator.  `view` builds the generator *)
(* object, `viewNext` is one call of its next(), which runs the body up to the  *)
(* next yield or to the end.                                                    *)

\* components.every(value => !!entity[value]); an absent property is undefined.
matches(entity, components) ==
    \A value \in components : value \in DOMAIN entity /\ ToBoolean(entity[value])

\* What a record holds for a payload: entityViewData[compKey] = entity[compKey].
recordEntry_Copy(payload) ==
    IF payload \in Objects
    THEN (IF heap[payload] = 0 THEN "copy0" ELSE "copy1")
    ELSE payload
recordEntry(payload) == payload

\* The field of the object an entry refers to.
ReadField(e) ==
    CASE e = "copy0" -> 0
      [] e = "copy1" -> 1
      [] e \in Objects -> heap[e]
      [] OTHER -> -1

includes_All(components, compKey) == TRUE
includes(components, compKey) == compKey \in components

\* Lines 357-365, without the uuid.
entityViewData(entity, components) ==
    [compKey \in {k \in DOMAIN entity : includes(components, k)} |->
        recordEntry(entity[compKey])]

\* The for loop from the key it has reached to its next yield.
RECURSIVE Scan(_, _)
Scan(keys, components) ==
    IF keys = <<>> THEN [kind |-> "return", uuid |-> NoName, rest |-> <<>>]
    ELSE LET uuid == Head(keys) IN
         IF uuid \notin DOMAIN entityRegistry
         THEN \* `entity` is undefined: entity[value] or Object.keys(entity) throws
              [kind |-> "throw", uuid |-> uuid, rest |-> <<>>]
         ELSE IF matches(entityRegistry[uuid], components)
         THEN [kind |-> "yield", uuid |-> uuid, rest |-> Tail(keys)]
         ELSE Scan(Tail(keys), components)

\* universe.view(...components) and actions.createView(...comps).  The caller
\* lets go of the record of the view it consumed before.
view(components) ==
    /\ gen' = [NoGenerator EXCEPT !.state = "suspendedStart", !.query = components,
                                  !.room = Cardinality(DOMAIN entityRegistry)]
    /\ lastOp' = EntOp("view", NoName, NoName, NoData, FALSE, NoData)
    /\ UNCHANGED <<sysVars, entityRegistry, entityOrder, created, heap, lastWrite, latest, snapshot>>

\* History: gen.room is the number of records the view may still yield without
\* yielding more than there were live entities when it was called (and no more
\* than the number of keys it has left to look at).
viewNext ==
    /\ gen.state \in {"suspendedStart", "suspendedYield", "completed"}
    /\ IF gen.state = "completed"
       THEN \* next() of a generator that has returned or thrown: { done: true }
            /\ lastOp' = EntOp("viewDone", NoName, NoName, NoData, FALSE, NoData)
            /\ UNCHANGED gen
       ELSE
       LET keys == IF gen.state = "suspendedStart" THEN typedKeys(entityOrder)
                   ELSE gen.keys
           step == Scan(keys, gen.query)
       IN  IF step.kind = "yield"
           THEN LET comps == entityViewData(entityRegistry[step.uuid], gen.query) IN
                /\ gen' = [gen EXCEPT !.state = "suspendedYield", !.keys = step.rest,
                                      !.out = IF gen.dirty THEN <<>> ELSE Append(@, step.uuid),
                                      !.rec = [uuid |-> step.uuid, comps |-> comps],
                                      !.stale = {},
                                      !.room = Min(@ - 1, Len(step.rest))]
                /\ lastOp' = EntOp("yield", step.uuid, NoName, NoData, FALSE, comps)
           ELSE \* the loop over the view ends, and with it the scope of its record
                /\ gen' = [gen EXCEPT !.state = "completed", !.keys = <<>>,
                                      !.query = IF gen.dirty THEN {} ELSE @,
                                      !.dirty = (@ \/ step.kind = "throw"),
                                      !.rec = NoRecord, !.stale = {},
                                      !.room = 0]
                /\ lastOp' = EntOp("viewDone", step.uuid, NoName, NoData,
                                   step.kind = "throw", NoData)
    /\ UNCHANGED <<sysVars, entityRegistry, entityOrder, created, heap, lastWrite, latest, snapshot>>

\* The caller, in the body of its loop over the view, assigns to the field of a
\* payload of the record it was handed.
writeField(name, value) ==
    /\ name \in DOMAIN gen.rec.comps
    /\ LET e == gen.rec.comps[name] IN
       /\ e \in Objects \/ IsCopy(e)
       /\ heap' = IF e \in Objects THEN [heap EXCEPT ![e] = value] ELSE heap
       /\ gen' = IF IsCopy(e)
                 THEN [gen EXCEPT !.rec.comps[name] = IF value = 0 THEN "copy0" ELSE "copy1"]
                 ELSE gen
       /\ lastWrite' = IF name \in gen.stale THEN NoWrite
                       ELSE [valid |-> TRUE, uuid |-> gen.rec.uuid, name |-> name,
                             value |-> value]
       /\ lastOp' = EntOp("writeField", gen.rec.uuid, name, NoData, FALSE, NoData)
    /\ UNCHANGED <<sysVars, entityRegistry, entityOrder, created, latest, snapshot>>

----------------------------------------------------------------------------
(* createUniverse, lines 193-197 *)

Init ==
    /\ systemRegistry = EmptyObject
    /\ keyOrder = <<>>
    /\ pc = "idle"
    /\ pending = <<>>
    /\ cur = NoName
    /\ handling = NoName
    /\ delta = 0
    /\ time = 0
    /\ now = 0
    /\ createdAt = 0
    /\ lastUpdateAt = 0
    /\ lastOp = Op("createUniverse", NoName, NoName, NoData, FALSE)
    /\ visited = <<>>
    /\ hist = EmptyObject
    /\ sent = EmptyObject
    /\ removed = NoRemoved
    /\ entityRegistry = EmptyObject
    /\ entityOrder = <<>>
    /\ created = 0
    /\ heap = [o \in Objects |-> 0]
    /\ gen = NoGenerator
    /\ lastWrite = NoWrite
    /\ latest = EmptyObject
    /\ snapshot = NoSnapshot

Intervals == 0..MaxInterval

\* The registry, the update loop and the freeze flags, under string names and an
\* array-index name.
Next ==
    \/ \E n \in SysNames : pc = "idle" /\ registerSystem(n, "p1")
    \/ \E n \in SysNames : pc = "idle" /\ unregisterSystem(n)
    \/ update(FALSE, 0)
    \/ updateNext
    \/ updateDone
    \/ processorReturn
    \/ processorThrow
    \/ \E n \in SysNames \cup {NoName} : freezeSystem(n)
    \/ \E n \in SysNames \cup {NoName} : unfreezeSystem(n)

Spec == Init /\ [][Next]_vars

\* Commands between two systems.
CmdNames == {"a", "1"}
CmdCommands == {"c"}

NextCmd ==
    \/ \E n \in CmdNames : pc = "idle" /\ registerSystem(n, "p1")
    \/ \E n \in CmdNames : pc = "idle" /\ unregisterSystem(n)
    \/ update(FALSE, 0)
    \/ updateNext
    \/ updateDone
    \/ processorReturn
    \/ \E n \in CmdNames, c \in CmdCommands, p \in Payloads : sendCommand(n, c, p)
    \/ \E c \in CmdCommands : handleCommand(c)
    \/ handlerReturn
    \/ handlerThrow

SpecCmd == Init /\ [][NextCmd]_vars

\* Schedules: system "b" is scheduled, system "a" may freeze and unfreeze it.
SchedNames == {"a", "b"}

NextSched ==
    \/ \E n \in SchedNames : pc = "idle" /\ registerSystem(n, "p1")
    \/ \E n \in SchedNames : pc = "idle" /\ unregisterSystem(n)
    \/ \E x \in Intervals, u \in Units : pc = "idle" /\ scheduleSystem("b", x, u)
    \/ pc = "idle" /\ unscheduleSystem("b")
    \/ \E d \in Deltas : update(FALSE, d)
    \/ updateNext
    \/ updateDone
    \/ processorReturn
    \/ cur = "a" /\ freezeSystem("b")
    \/ cur = "a" /\ unfreezeSystem("b")

SpecSched == Init /\ [][NextSched]_vars

\* The system registry under every call that names a system, the name registered
\* or not.  The empty string is a name like any other for registerSystem.  System
\* "a" is the one that is scheduled and sent commands.
RegNames == {"a", ""}
RegCommands == {"c"}
RegPayloads == {"1"}

NextReg ==
    \/ \E n \in RegNames, p \in Processors : pc = "idle" /\ registerSystem(n, p)
    \/ \E n \in RegNames : pc = "idle" /\ unregisterSystem(n)
    \/ pc = "idle" /\ scheduleSystem("a", 0, "seconds")
    \/ pc = "idle" /\ unscheduleSystem("a")
    \/ update(FALSE, 0)
    \/ updateNext
    \/ updateDone
    \/ processorReturn
    \/ \E c \in RegCommands, p \in RegPayloads : sendCommand("a", c, p)
    \/ \E n \in RegNames \cup {NoName} : freezeSystem(n)
    \/ \E n \in RegNames \cup {NoName} : unfreezeSystem(n)

SpecReg == Init /\ [][NextReg]_vars

\* The entity registry and its views, called from outside update.  The caller
\* pulls the first record of a view before it changes the registry again (a
\* generator reads nothing before its first pull, so the other order yields
\* the same records; it is the order of SpecLife).
Started == gen.state # "suspendedStart"

NextEnt ==
    \/ Started /\ createEntity
    \/ \E uuid \in Uuids, name \in Components : \E data \in PayloadsOf(name) :
            Started /\ attachComponent(uuid, name, data)
    \/ \E uuid \in Uuids, name \in Components : Started /\ detachComponent(uuid, name)
    \/ \E uuid \in Uuids : Started /\ destroyEntity(uuid)
    \/ \E uuid \in Uuids : cloneEntity(uuid, FALSE)
    \/ \E components \in SUBSET Components : view(components)
    \/ viewNext
    \/ \E name \in Components, value \in FieldValues : writeField(name, value)

SpecEnt == Init /\ [][NextEnt]_vars

\* Entities that come and go while a view is held, before and after its first
\* pull.
NextLife ==
    \/ createEntity
    \/ \E uuid \in Uuids : attachComponent(uuid, "q", "1")
    \/ \E uuid \in Uuids : destroyEntity(uuid)
    \/ \E components \in {{}, {"q"}} : view(components)
    \/ viewNext

SpecLife == Init /\ [][NextLife]_vars

\* cloneEntity and what the caller does with the object it returns, while the
\* entity lives on.
NextClone ==
    \/ createEntity
    \/ \E uuid \in Uuids, name \in Components : \E data \in PayloadsOf(name) :
            attachComponent(uuid, name, data)
    \/ \E uuid \in Uuids, name \in Components : detachComponent(uuid, name)
    \/ \E uuid \in Uuids : destroyEntity(uuid)
    \/ \E uuid \in Uuids : cloneEntity(uuid, TRUE)
    \/ \E name \in Components : \E data \in PayloadsOf(name) : snapshotPut(name, data)
    \/ \E name \in Components : snapshotDelete(name)

SpecClone == Init /\ [][NextClone]_vars

\* An update pass whose processors change what the universe holds (commands,
\* freeze flags, a schedule's counter, components through the universe they
\* captured) and may raise, themselves or through the call they make.
PassNames == {"a", "b"}

NextPass ==
    \/ \E n \in PassNames : pc = "idle" /\ registerSystem(n, "p1")
    \/ pc = "idle" /\ scheduleSystem("b", 2, "updates")
    \/ pc = "idle" /\ created = 0 /\ createEntity
    \/ update(FALSE, 3000)
    \/ updateNext
    \/ updateDone
    \/ processorReturn
    \/ processorThrow
    \/ sendCommand("b", "c", "1")
    \/ handleCommand("c")
    \/ handlerReturn
    \/ handlerThrow
    \/ \E n \in {"b", NoName} : freezeSystem(n)
    \/ unfreezeSystem("b")
    \/ InProcessor /\ attachComponent(Uuid(1), "q", "1")

SpecPass == Init /\ [][NextPass]_vars

\* Processors that hold the universe they were registered with and call its
\* registerSystem and unregisterSystem while a pass runs.
NextNested ==
    \/ \E n \in PassNames : pc = "idle" /\ registerSystem(n, "p1")
    \/ \E n \in PassNames : pc = "proc" /\ registerSystem(n, "p2")
    \/ \E n \in PassNames : pc = "proc" /\ unregisterSystem(n)
    \/ update(FALSE, 0)
    \/ updateNext
    \/ updateDone
    \/ processorReturn

SpecNested ==
    /\ Init /\ [][NextNested]_vars
    /\ WF_vars(updateNext) /\ WF_vars(updateDone) /\ WF_vars(processorReturn)

\* The clock: update calls at different distances, with and without resetTime.
Advances == {0, 500, 1000}

NextTime ==
    \/ \E n \in PassNames : pc = "idle" /\ registerSystem(n, "p1")
    \/ \E resetTime \in BOOLEAN, d \in Advances : update(resetTime, d)
    \/ updateNext
    \/ updateDone
    \/ processorReturn

SpecTime == Init /\ [][NextTime]_vars

\* Passes in which no processor raises: "a" may freeze and unfreeze "b", which
\* may have a schedule; the processors and the loop go on (JavaScript runs them
\* to completion), which the fairness conditions state.
NextRun ==
    \/ \E n \in PassNames : pc = "idle" /\ registerSystem(n, "p1")
    \/ pc = "idle" /\ unregisterSystem("a")
    \/ pc = "idle" /\ scheduleSystem("b", 2, "updates")
    \/ update(FALSE, 1000)
    \/ updateNext
    \/ updateDone
    \/ processorReturn
    \/ cur = "a" /\ freezeSystem("b")
    \/ cur = "a" /\ unfreezeSystem("b")

SpecRun ==
    /\ Init /\ [][NextRun]_vars
    /\ WF_vars(updateNext) /\ WF_vars(updateDone) /\ WF_vars(processorReturn)


----------------------------------------------------------------------------
(* Claims *)

Invoked(i) == visited[i].outcome = "invoked"

\* C1: in every update pass the invoked systems are invoked in registration
\* order, whatever their names are (array-index names included).
C1_RegistrationOrder ==
    pc # "idle" =>
        \A i, j \in 1..Len(visited) :
            (i < j /\ Invoked(i) /\ Invoked(j)) =>
                IndexOf(keyOrder, visited[i].name) < IndexOf(keyOrder, visited[j].name)

\* C2: a command sent during a pass by another system is received by the
\* target's handleCommand in that same pass when the target runs after the
\* sender, and the target then is the one registered later.
C2_SamePassVisibility ==
    (lastOp.op = "handleCommand" /\ lastOp.prior.thisPass /\ lastOp.prior.by # lastOp.sys) =>
        /\ lastOp.called
        /\ lastOp.data = lastOp.prior.data
        /\ IndexOf(keyOrder, lastOp.prior.by) < IndexOf(keyOrder, lastOp.sys)

\* C3: a handler is invoked only with a payload sent since the last time the
\* handler of that command of that system was invoked: no payload is passed
\* to a handler twice.
C3_SingleDelivery ==
    (lastOp.op = "handleCommand" /\ lastOp.called) => lastOp.prior.count > 0

\* C4: whenever the executing system's queue holds an entry under the command
\* name, handleCommand invokes the handler with the stored payload, whatever
\* the payload is.
C4_EveryEntryHandled ==
    (lastOp.op = "handleCommand" /\ lastOp.had) =>
        (lastOp.called /\ lastOp.data = lastOp.stored)

\* C5: after two sends of the same command to the same system with no handling
\* in between, the next handleCommand invokes the handler with the second
\* payload.
C5_OverwriteDeliversLatest ==
    (lastOp.op = "handleCommand" /\ lastOp.prior.count >= 2) =>
        (lastOp.called /\ lastOp.data = lastOp.prior.data)

\* C6: sendCommand to a name that is not registered raises, leaves update, and
\* changes nothing in the system registry; a later registration of that name
\* starts with an empty queue.
C6_UnknownTargetRaises ==
    [][/\ (lastOp'.op = "sendCommand" /\ lastOp'.sys \notin DOMAIN systemRegistry) =>
            (lastOp'.err /\ pc' = "idle" /\ systemRegistry' = systemRegistry
                /\ keyOrder' = keyOrder)
       /\ (lastOp'.op = "registerSystem" /\ ~lastOp'.err) =>
            systemRegistry'[lastOp'.sys].commandQueue = EmptyObject]_vars

C6_Witness ==
    /\ lastOp.op = "sendCommand" /\ lastOp.err
    /\ lastOp.sys \notin DOMAIN systemRegistry
    /\ \E n \in DOMAIN systemRegistry : systemRegistry[n].commandQueue # EmptyObject

\* C7: a system that froze itself with freezeSystem() goes on with its
\* invocation, keeps its frozen flag until an unfreezeSystem call targets it,
\* and is not invoked by any pass that reaches it before that.
C7_FreezeSkip ==
    /\ \A i \in 1..Len(visited) : Invoked(i) => ~visited[i].waiting
    /\ \A n \in DOMAIN hist : hist[n].mustWait => systemRegistry[n].isFrozen
    /\ (lastOp.op = "freezeSystem" /\ ~lastOp.err) => InProcessor

C7_Witness ==
    \E i \in 1..Len(visited) : visited[i].waiting /\ visited[i].outcome = "frozen"

\* C8: a never-frozen system scheduled every N updates is invoked on the
\* 1st, (1+N)th, (1+2N)th ... update after the scheduling and on no other.
C8_UpdatesCadence ==
    \A i \in 1..Len(visited) :
        (visited[i].n >= 1 /\ visited[i].never) =>
            (Invoked(i) <=> (visited[i].k - 1) % visited[i].n = 0)

C8_Witness ==
    \E i \in 1..Len(visited) :
        visited[i].n = 3 /\ visited[i].never /\ visited[i].k = 7 /\ Invoked(i)

\* C9: the first pass that reaches a system after scheduleSystem was called on
\* it, and finds it not frozen, invokes it.
C9_FirstRunAfterSchedule ==
    \A i \in 1..Len(visited) :
        visited[i].fresh # "no" => visited[i].outcome # "notDue"

C9_Witness ==
    \E i \in 1..Len(visited) : visited[i].fresh = "again" /\ Invoked(i)

\* C10: two consecutive invocations of a system under one schedule of s
\* seconds are at least s*1000 ms of update delta apart.
C10_SecondsSpacing ==
    \A i \in 1..Len(visited) :
        (Invoked(i) /\ visited[i].need >= 0 /\ visited[i].gap >= 0) =>
            visited[i].gap >= visited[i].need

C10_Witness ==
    \E i \in 1..Len(visited) :
        Invoked(i) /\ visited[i].need = 2000 /\ visited[i].gap >= 0

\* What registerSystem builds: not frozen, no pending command, no schedule.
Fresh(system) ==
    /\ ~system.isFrozen
    /\ system.commandQueue = EmptyObject
    /\ system.schedule = NoSchedule

C12_UnregisterClears ==
    [][/\ (lastOp'.op = "unregisterSystem" /\ ~lastOp'.err) =>
            lastOp'.sys \notin DOMAIN systemRegistry'
       /\ (lastOp'.op = "registerSystem" /\ ~lastOp'.err
                /\ lastOp'.sys = removed.name) =>
            (lastOp'.sys \in DOMAIN systemRegistry' /\ Fresh(systemRegistry'[lastOp'.sys]))]_vars

C12_Witness ==
    /\ lastOp.op = "registerSystem" /\ ~lastOp.err
    /\ lastOp.sys = removed.name
    /\ removed.frozen
    /\ removed.queued
    /\ removed.scheduled
    /\ Fresh(systemRegistry[lastOp.sys])

\* C13: unregisterSystem, scheduleSystem, unscheduleSystem, freezeSystem(name)
\* and unfreezeSystem(name), called with a name that is not registered, raise
\* and change nothing in the system registry.
C13_UnknownSystemRaises ==
    [][(/\ lastOp'.op \in {"unregisterSystem", "scheduleSystem", "unscheduleSystem",
                           "freezeSystem", "unfreezeSystem"}
        /\ lastOp'.sys # NoName
        /\ lastOp'.sys \notin DOMAIN systemRegistry) =>
            (lastOp'.err /\ systemRegistry' = systemRegistry /\ keyOrder' = keyOrder)]_vars

C15_CloneUnknownRaises ==
    (lastOp.op = "cloneEntity" /\ lastOp.uuid \notin DOMAIN entityRegistry) => lastOp.err

Count(seq, x) == Cardinality({i \in 1..Len(seq) : seq[i] = x})

\* C16: a view consumed to its end, with no change of the registry since it
\* was requested, has yielded each entity once if the entity is live and has
\* every requested name attached, whatever the payloads are, and not at all
\* otherwise.
C16_ViewFilter ==
    (gen.state = "completed" /\ ~gen.dirty) =>
        \A uuid \in Uuids :
            Count(gen.out, uuid) =
                IF /\ uuid \in DOMAIN entityRegistry
                   /\ gen.query \subseteq DOMAIN entityRegistry[uuid]
                THEN 1 ELSE 0

C18_LiveReferences ==
    (lastWrite.valid /\ lastOp.op \in {"yield", "cloneEntity"}
        /\ lastOp.uuid = lastWrite.uuid) =>
        /\ lastOp.op = "cloneEntity" => lastWrite.name \in DOMAIN lastOp.result
        /\ lastWrite.name \in DOMAIN lastOp.result =>
                ReadField(lastOp.result[lastWrite.name]) = lastWrite.value

C18_Witness ==
    /\ lastWrite.valid /\ lastWrite.value = 1
    /\ lastOp.op = "yield" /\ lastOp.uuid = lastWrite.uuid
    /\ lastWrite.name \in DOMAIN lastOp.result
    /\ gen.out = <<lastOp.uuid>>

\* C19: attachComponent on a live entity leaves the given payload under the
\* name and every other component of the entity as it was, and what views and
\* cloneEntity return under a name is the payload last attached under it.
C19_AttachOverwrites ==
    [][/\ (lastOp'.op = "attachComponent" /\ ~lastOp'.err) =>
            LET before == spread(entityRegistry, lastOp'.uuid)
                after  == spread(entityRegistry', lastOp'.uuid)
            IN  /\ lastOp'.name \in DOMAIN after
                /\ after[lastOp'.name] = lastOp'.data
                /\ \A n \in Components \ {lastOp'.name} :
                      /\ n \in DOMAIN after <=> n \in DOMAIN before
                      /\ n \in DOMAIN before => after[n] = before[n]
       /\ (lastOp'.op \in {"yield", "cloneEntity"}
                /\ lastOp'.uuid \in DOMAIN entityRegistry') =>
            \A n \in DOMAIN lastOp'.result :
                /\ n \in DOMAIN latest'[lastOp'.uuid]
                /\ lastOp'.result[n] = latest'[lastOp'.uuid][n]]_vars

C19_Witness ==
    /\ lastOp.op = "attachComponent" /\ ~lastOp.err
    /\ lastOp.result = "0" /\ lastOp.data \in Objects
    /\ spread(entityRegistry, lastOp.uuid)[lastOp.name] = lastOp.data
    /\ "q" \in DOMAIN entityRegistry[lastOp.uuid]

\* C20: detachComponent on a live entity raises nothing; when the entity does
\* not have the name the registry is unchanged, otherwise the name alone is
\* removed from that entity.
C20_DetachFrame ==
    [][(lastOp'.op = "detachComponent" /\ lastOp'.uuid \in DOMAIN entityRegistry) =>
          LET before == entityRegistry[lastOp'.uuid] IN
          /\ ~lastOp'.err
          /\ entityOrder' = entityOrder
          /\ entityRegistry' =
                [entityRegistry EXCEPT ![lastOp'.uuid] =
                    [n \in DOMAIN before \ {lastOp'.name} |-> before[n]]]
          /\ lastOp'.name \notin DOMAIN before => entityRegistry' = entityRegistry]_vars

C20_Witness ==
    /\ lastOp.op = "detachComponent" /\ ~lastOp.err
    /\ lastOp.result = NoData
    /\ DOMAIN entityRegistry = {Uuid(1), Uuid(2)}
    /\ entityRegistry[lastOp.uuid] # EmptyObject
    /\ \E uuid \in DOMAIN entityRegistry :
            uuid # lastOp.uuid /\ entityRegistry[uuid] # EmptyObject


----------------------------------------------------------------------------
\* C21: createEntity returns an identifier that no live entity has, leaves every
\* existing entity with the components it had, and the new entity has none.
C21_CreateFresh ==
    [][created' # created =>
         /\ lastOp'.op = "createEntity"
         /\ lastOp'.uuid \notin DOMAIN entityRegistry
         /\ DOMAIN entityRegistry' = DOMAIN entityRegistry \cup {lastOp'.uuid}
         /\ \A u \in DOMAIN entityRegistry : entityRegistry'[u] = entityRegistry[u]
         /\ entityRegistry'[lastOp'.uuid] = EmptyObject]_vars

C21_Witness ==
    /\ lastOp.op = "createEntity"
    /\ lastOp.uuid = Uuid(2)
    /\ Uuid(1) \in DOMAIN entityRegistry
    /\ DOMAIN entityRegistry[Uuid(1)] = Components
    /\ entityRegistry[Uuid(2)] = EmptyObject

----------------------------------------------------------------------------
\* C22: a raise inside a pass (by the processor, by a handler, or by a call the
\* processor makes) leaves update at once, so that no later system of the pass
\* is invoked, and rolls nothing back: the registry of systems (queues, freeze
\* flags, schedule counters), the components and lastUpdateAt stay as the
\* pass had left them.
C22_AbortKeepsState ==
    [][(InProcessor /\ lastOp'.err) =>
         /\ pc' = "idle" /\ pending' = <<>> /\ cur' = NoName
         /\ UNCHANGED <<systemRegistry, keyOrder, entityRegistry, heap,
                        createdAt, lastUpdateAt>>
         /\ lastUpdateAt' = now']_vars

C22_Witness ==
    /\ lastOp.op = "throw" /\ lastOp.err /\ lastOp.sys = "a"
    /\ pc = "idle"
    /\ keyOrder = <<"b", "a">>
    /\ SentOf("b", "c").thisPass /\ "c" \in DOMAIN systemRegistry["b"].commandQueue
    /\ systemRegistry["b"].isFrozen
    /\ Scheduled("b") /\ systemRegistry["b"].schedule[1].timeSinceLastUpdate = 1
    /\ Uuid(1) \in DOMAIN entityRegistry /\ "q" \in DOMAIN entityRegistry[Uuid(1)]
    /\ lastUpdateAt = now /\ now = 6000

----------------------------------------------------------------------------
----------------------------------------------------------------------------
\* C24: the object cloneEntity returned and the live entity are independent:
\* setting or deleting a name in the object changes no entity's components,
\* and attach, detach and destroy leave the names of the object as they were.
C24_SnapshotIndependent ==
    [][/\ lastOp'.op \in {"snapshotPut", "snapshotDelete"} =>
            entityRegistry' = entityRegistry
       /\ lastOp'.op \in {"attachComponent", "detachComponent", "destroyEntity"} =>
            namesOf(snapshot)' = namesOf(snapshot)]_vars

C24_Witness ==
    /\ lastOp.op = "detachComponent" /\ ~lastOp.err /\ lastOp.uuid = snapshot.of
    /\ lastOp.name = "p" /\ lastOp.result # NoData
    /\ DOMAIN snapshot.comps = {"p"}
    /\ DOMAIN entityRegistry[snapshot.of] = {"q"}

----------------------------------------------------------------------------
\* The identifiers handed out and destroyed since.
Destroyed == {Uuid(k) : k \in 1..created} \ DOMAIN entityRegistry

\* C25: destroyEntity on a live entity removes it with its components and
\* leaves every other entity as it was; from then on no view yields a record
\* of it, whatever the query, and attachComponent, detachComponent and
\* destroyEntity on it raise and change nothing.
C25_DestroyRemoves ==
    [][/\ (lastOp'.op = "destroyEntity" /\ lastOp'.uuid \in DOMAIN entityRegistry) =>
            /\ ~lastOp'.err
            /\ DOMAIN entityRegistry' = DOMAIN entityRegistry \ {lastOp'.uuid}
            /\ \A u \in DOMAIN entityRegistry' : entityRegistry'[u] = entityRegistry[u]
            /\ heap' = heap
       /\ lastOp'.op = "yield" => lastOp'.uuid \notin Destroyed
       /\ (/\ lastOp'.op \in {"attachComponent", "detachComponent", "destroyEntity"}
           /\ lastOp'.uuid \in Destroyed) =>
            (lastOp'.err /\ entityRegistry' = entityRegistry)]_vars

C25_Witness ==
    /\ lastOp.op = "yield" /\ lastOp.uuid = Uuid(2)
    /\ gen.query = {} /\ ~gen.dirty /\ gen.keys = <<>>
    /\ Destroyed = {Uuid(1)}
    /\ entityRegistry[Uuid(2)] # EmptyObject

----------------------------------------------------------------------------
\* C26: when the loop reaches a frozen system that has a schedule and is in the
\* middle of its interval, it does not invoke it and does not reset the
\* schedule, and the schedule's counter grows as it does for a system that is
\* not due: by 1 under "updates", by delta under "seconds".
C26_FrozenAccumulates ==
    [][(/\ pc = "loop" /\ pending # <<>> /\ pending' = Tail(pending)
        /\ Head(pending) \in DOMAIN systemRegistry
        /\ systemRegistry[Head(pending)].isFrozen
        /\ Waiting(systemRegistry[Head(pending)])) =>
            /\ pc' = "loop"
            /\ systemRegistry'[Head(pending)].schedule =
                    <<accumulate(systemRegistry[Head(pending)].schedule[1], delta)>>]_vars

----------------------------------------------------------------------------
\* C27: a never-frozen system under a schedule of s seconds is invoked by the
\* first pass at which the deltas of the updates since its previous invocation,
\* the delta of that pass included, add up to s*1000 ms or more.
C27_SecondsDueAtOnce ==
    \A i \in 1..Len(visited) :
        (/\ visited[i].need >= 0 /\ visited[i].never
         /\ visited[i].gap >= visited[i].need /\ visited[i].gap >= 0) => Invoked(i)

----------------------------------------------------------------------------
\* C28: the systems a pass invokes all receive the pass's (time, delta); delta is
\* what the clock advanced since the previous update call (since the creation
\* for the first call); time is 0 in an update(true) call and otherwise the
\* time of the previous call plus delta, that is, the clock time since the
\* creation or the last update(true).
C28_TimeAndDelta ==
    /\ [][(pc = "idle" /\ lastOp'.op = "update") =>
            /\ delta' = now' - now
            /\ time' = IF lastOp'.data = "true" THEN 0 ELSE time + delta'
            /\ time' = now' - createdAt']_vars
    /\ [](\A i \in 1..Len(visited) : Invoked(i) => visited[i].args = <<time, delta>>)

C28_Witness ==
    /\ pc = "loop" /\ pending = <<>>
    /\ Len(visited) = 2 /\ Invoked(1) /\ Invoked(2)
    /\ visited[1].args = <<1500, 500>> /\ visited[2].args = <<1500, 500>>
    /\ createdAt = 1000 /\ now = 2500

----------------------------------------------------------------------------
\* C29: a view yields no more records than there were live entities when it
\* was called, whatever is created before its first record is pulled; and a
\* view that has been consumed yields no record when it is iterated again.
C29_ViewFixedAtCall ==
    /\ [](gen.room >= 0)
    /\ [][(gen.state = "completed" /\ lastOp'.op \in {"yield", "viewDone"}) =>
            (lastOp'.op = "viewDone" /\ gen' = gen)]_vars

----------------------------------------------------------------------------
\* C30: a payload that sendCommand stored and no handler has been passed is
\* still in the queue of its system, under its command, for as long as the
\* system is registered; so is the payload a handler sends to its own system
\* under the command it is handling.
C30_NoPayloadLost ==
    \A n \in DOMAIN sent : \A c \in DOMAIN sent[n] :
        /\ n \in DOMAIN systemRegistry
        /\ c \in DOMAIN systemRegistry[n].commandQueue
        /\ systemRegistry[n].commandQueue[c] = sent[n][c].data

----------------------------------------------------------------------------
----------------------------------------------------------------------------
\* Every registered system is frozen.
AllFrozen ==
    /\ DOMAIN systemRegistry # {}
    /\ \A n \in DOMAIN systemRegistry : systemRegistry[n].isFrozen

\* C32: the frozen flag of a registered system changes only in a freezeSystem or
\* unfreezeSystem call made while a system runs; and once every registered
\* system is frozen and none is running, no step invokes a system, the steps
\* of update passes leave the registry of systems (frozen flags, command
\* queues, schedules) and the components as they are, and every system stays
\* frozen until a new one is registered.
C32_AllFrozenInert ==
    [][/\ (\E n \in DOMAIN systemRegistry \cap DOMAIN systemRegistry' :
              systemRegistry'[n].isFrozen # systemRegistry[n].isFrozen) =>
            (InProcessor /\ lastOp'.op \in {"freezeSystem", "unfreezeSystem"})
       /\ (AllFrozen /\ pc \in {"idle", "loop"}) =>
            /\ pc' \in {"idle", "loop"}
            /\ lastOp'.op # "invoke"
            /\ lastOp'.op \in {"update", "skip", "updated"} =>
                    UNCHANGED <<systemRegistry, keyOrder, entityRegistry, heap>>
            /\ AllFrozen' \/ (lastOp'.op = "registerSystem" /\ ~lastOp'.err)]_vars

C32_Witness ==
    /\ pc = "loop" /\ pending = <<>> /\ now = 6000
    /\ AllFrozen
    /\ Len(visited) = 2
    /\ \A i \in 1..2 : visited[i].outcome = "frozen"
    /\ Scheduled("b") /\ "c" \in DOMAIN systemRegistry["b"].commandQueue
    /\ Uuid(1) \in DOMAIN entityRegistry /\ "q" \in DOMAIN entityRegistry[Uuid(1)]

----------------------------------------------------------------------------
\* C33: what the loop does with a system follows the frozen flag the system
\* has when the loop reaches it, whatever the flag was when the pass began: a
\* system frozen since the pass began by one the loop reached earlier is
\* skipped in this pass, one unfrozen since the pass began is invoked in it,
\* and a system frozen after the loop had invoked it keeps that invocation
\* and is skipped by the next pass that reaches it frozen.
C33_FlagReadWhenReached ==
    /\ \A i \in 1..Len(visited) :
          /\ (~visited[i].atStart /\ visited[i].frozen) => visited[i].outcome = "frozen"
          /\ (visited[i].atStart /\ ~visited[i].frozen /\ visited[i].due) => Invoked(i)
          /\ (visited[i].atStart /\ visited[i].frozen) => visited[i].outcome = "frozen"
    /\ (lastOp.op \in {"freezeSystem", "unfreezeSystem"} /\ ~lastOp.err /\ pc = "proc") =>
          \E i \in 1..Len(visited) : visited[i].name = cur /\ Invoked(i)

C33_Witness ==
    /\ pc = "proc" /\ cur = "b" /\ keyOrder = <<"1", "a", "b">>
    /\ lastOp.op = "freezeSystem" /\ lastOp.sys = "1" /\ systemRegistry["1"].isFrozen
    /\ Len(visited) = 3
    /\ Invoked(1) /\ ~visited[1].atStart
    /\ visited[2].outcome = "frozen" /\ ~visited[2].atStart
    /\ Invoked(3) /\ visited[3].atStart

============================================================================
